---- MODULE Spec2Model ----
(***************************************************************************)
(* Model of ImageVariationApp (src/main.py): a Tk application that         *)
(* compresses an oversized source image, splits a requested number of      *)
(* variations into provider batches of at most 5, throttles the batches    *)
(* with a 60-second sliding window and writes every result to disk.        *)
(*                                                                         *)
(* The program is single threaded.  A handler runs when the Tk event loop  *)
(* dispatches a click; the event loop runs in root.mainloop() and, nested, *)
(* inside every root.update() call of a handler.  The model keeps the      *)
(* suspended handlers in `stack` (innermost last).                         *)
(*                                                                         *)
(* Time is in whole seconds, sizes are in whole megabytes.                 *)
(***************************************************************************)
EXTENDS Integers, Sequences, FiniteSets, TLC

\* ------------------------------------------------------------------ bounds
\* Wall-clock seconds after which the environment stops letting time pass
\* on its own (a sleep of the rate limiter may still run past it).
MaxTime == 80
\* Deepest nesting of handlers (a handler dispatched from inside another
\* handler's root.update()).
MaxDepth == 2

\* ------------------------------------------------------- program constants
\* enforce_rate_limit(num_requests = 5)
num_requests == 5
\* the window of enforce_rate_limit, in seconds
Window == 60
\* the provider's cap on n per request: min(5, ...)
BatchCap == 5
\* select_file(max_size_mb = 4), compress_image(max_size_mb = 4)
max_size_mb == 4

\* ------------------------------------------------------------ environment
\* Seconds by which the clock advances while the program is blocked outside
\* its own code (idle in the event loop, or inside the provider request).
TickSteps == {20}

NORMAL == "normal"
DISABLED == "disabled"

\* self.file_path / image files.  `name` is the basename, `prefix` the number
\* of "compressed_" prefixes in front of it, `size` what os.path.getsize
\* gives, w and h the image's dimensions, `exists` whether the path
\* references a file.  NoneFile is Python's None, NoFile the empty string a
\* cancelled dialog returns.
File(name, size, w, h, exists) ==
    [name |-> name, prefix |-> 0, size |-> size, w |-> w, h |-> h, exists |-> exists]
NoneFile == File("None", 0, 0, 0, FALSE)
NoFile == File("", 0, 0, 0, FALSE)
\* What filedialog.askopenfilename can return.
SourceFiles ==
    { NoFile,
      File("small.png", 3, 3, 1, TRUE),
      File("huge.png", 20, 4, 4, TRUE),
      File("meta.png", 12, 3, 2, TRUE),
      File("gone.png", 0, 0, 0, FALSE) }
\* Bytes of an encoded file that do not shrink with the image's dimensions
\* (metadata, colour profile), by basename.
Overhead(name) == IF name = "meta.png" THEN 5 ELSE 0

\* What filedialog.askdirectory can return ("" when cancelled; the dialog
\* does not require the directory to exist).
Dirs == {"", "out", "typed_missing"}
DirExists(d) == d = "out"

\* Texts the user can leave in num_variations_entry.
EntryTexts == {"", "abc", "0", "6"}

\* int(text): the integer a decimal text denotes; any other text raises
\* ValueError.
Parsed(v) == [raised |-> FALSE, value |-> v]
int(text) ==
    CASE text = "0" -> Parsed(0)
      [] text = "1" -> Parsed(1)
      [] text = "5" -> Parsed(5)
      [] text = "6" -> Parsed(6)
      [] text = "10" -> Parsed(10)
      [] text = "12" -> Parsed(12)
      [] OTHER -> [raised |-> TRUE, value |-> 0]

\* Python truthiness of a path: None and "" are false.
Truthy(f) == f.name \notin {"None", ""}
TruthyDir(d) == d \notin {"None", ""}

Min(a, b) == IF a < b THEN a ELSE b

\* ------------------------------------------------------------------ state
VARIABLES
    now,                 \* time.time()
    request_timestamps,  \* self.request_timestamps
    file_path,           \* self.file_path
    output_directory,    \* self.output_directory
    entry,               \* text of self.num_variations_entry
    buttons,             \* state of select_file_button, select_dir_button, start_button
    progress,            \* self.progress["value"]
    status_label,        \* text and colour of self.status_label
    labels,              \* text of self.file_label and self.dir_label
    stack,               \* the handlers in progress, innermost last
    run,                 \* what the current (or last) generate_variations run did
    disk,                \* the running indices of the regen files in the output directory
    released             \* the instants at which enforce_rate_limit returned

vars == <<now, request_timestamps, file_path, output_directory, entry, buttons,
          progress, status_label, labels, stack, run, disk, released>>

ui == <<buttons, progress, status_label, labels>>

Status(text, fg) == [text |-> text, fg |-> fg, k |-> 0, n |-> 0, cause |-> ""]

AllButtons(state) ==
    [select_file_button |-> state, select_dir_button |-> state, start_button |-> state]

\* A run that has done nothing yet.
NoRun ==
    [outcome |-> "none", repetitions |-> 0, acquires |-> 0, calls |-> <<>>,
     written |-> <<>>, cause |-> "", dialog |-> "none"]

\* The record of a run is kept until the event loop dispatches the next
\* event after the run has ended.
Observed == IF run.outcome = "Processing" THEN run ELSE NoRun

\* One handler in progress.  pc is the source line the handler is at.
Frame(fn, pc) ==
    [fn |-> fn, pc |-> pc, repetitions |-> 0, images_created |-> 0, n_value |-> 0,
     i |-> 0, current_time |-> 0, sleep_time |-> 0, image_name |-> "",
     img |-> NoneFile, file_size |-> 0]

Top == stack[Len(stack)]
Pop == SubSeq(stack, 1, Len(stack) - 1)
Push(f) == Append(stack, f)
SetTop(f) == [stack EXCEPT ![Len(stack)] = f]
At(fn, pc) == stack # <<>> /\ Top.fn = fn /\ Top.pc = pc

\* The source lines at which a handler is inside root.update().
PumpPcs == {"108", "173", "226", "258"}
\* The Tk event loop is dispatching events: in root.mainloop() with no handler
\* in progress, or inside the root.update() of the innermost handler.
EventLoop == IF stack = <<>> THEN TRUE ELSE Top.pc \in PumpPcs

Init ==
    /\ now = 0
    /\ request_timestamps = <<>>
    /\ file_path = NoneFile
    /\ output_directory = "None"
    /\ entry = ""
    /\ buttons = AllButtons(NORMAL)
    /\ progress = 0
    /\ status_label = Status("Ready", "blue")
    /\ labels = [file_label |-> "No file selected", dir_label |-> "No directory selected"]
    /\ stack = <<>>
    /\ run = NoRun
    /\ disk = {}
    /\ released = <<>>


\* ------------------------------------------------------------ select_file
\* os.path.getsize of the file img.save wrote for an image of w x h pixels.
EncodedSize(name, w, h) == Overhead(name) + w * h

\* A resize that never goes below one pixel.
ResizeDimKeepsOnePixel(x) == IF (x * 9) \div 10 < 1 THEN 1 ELSE (x * 9) \div 10

\* int(width * 0.9)
ResizeDim(x) == (x * 9) \div 10

\* The test with the size divided by 1024 once too often.
StillTooLargeWrongUnit(file_size) == file_size \div 1024 > max_size_mb

\* The test of `while file_size > max_size_mb` (and of the `if` before it).
StillTooLarge(file_size) == file_size > max_size_mb

\* select_file up to its root.update(): the dialog returned p.
ClickSelectFile(p) ==
    /\ EventLoop
    /\ buttons.select_file_button = NORMAL
    /\ file_path' = p
    /\ IF ~Truthy(p)
         THEN /\ labels' = [labels EXCEPT !.file_label = "No file selected"]
              /\ UNCHANGED <<status_label, stack>>
         ELSE IF ~p.exists
           THEN \* os.path.getsize raises: the handler ends here
                UNCHANGED <<labels, status_label, stack>>
           ELSE IF p.size > max_size_mb
             THEN /\ Len(stack) < MaxDepth
                  /\ status_label' = Status("Compressing image...", "orange")
                  /\ stack' = Push(Frame("select_file", "108"))
                  /\ UNCHANGED labels
             ELSE /\ labels' = [labels EXCEPT !.file_label = "File selected"]
                  /\ UNCHANGED <<status_label, stack>>
    /\ run' = Observed
    /\ UNCHANGED <<now, request_timestamps, output_directory, entry, buttons,
                   progress, disk, released>>

\* root.update() of select_file returns and compress_image(self.file_path)
\* opens the image and saves it once with the reduced quality.
CompressOpen ==
    /\ At("select_file", "108")
    /\ IF ~Truthy(file_path) \/ ~file_path.exists
         THEN \* Image.open raises
              stack' = Pop
         ELSE stack' = SetTop([Top EXCEPT
                  !.pc = "148",
                  !.img = [file_path EXCEPT !.prefix = @ + 1],
                  !.file_size = EncodedSize(file_path.name, file_path.w, file_path.h)])
    /\ UNCHANGED <<now, request_timestamps, file_path, output_directory, entry, ui,
                   run, disk, released>>

\* One test of the resize loop of compress_image, with the iteration it
\* starts, or with the return to select_file when the test fails.
CompressLoop ==
    /\ At("select_file", "148")
    /\ IF StillTooLarge(Top.file_size)
         THEN LET w == ResizeDim(Top.img.w)
                  h == ResizeDim(Top.img.h)
              IN  /\ IF w < 1 \/ h < 1
                       THEN \* img.resize raises ValueError
                            stack' = Pop
                       ELSE stack' = SetTop([Top EXCEPT
                                !.img = [@ EXCEPT !.w = w, !.h = h],
                                !.file_size = EncodedSize(Top.img.name, w, h)])
                  /\ UNCHANGED <<file_path, status_label, labels>>
         ELSE /\ file_path' = [Top.img EXCEPT !.size = Top.file_size]
              /\ status_label' = Status("Image compressed", "green")
              /\ labels' = [labels EXCEPT !.file_label = "File selected"]
              /\ stack' = Pop
    /\ UNCHANGED <<now, request_timestamps, output_directory, entry, buttons,
                   progress, run, disk, released>>

\* ------------------------------------------------------- select_directory
ClickSelectDirectory(d) ==
    /\ EventLoop
    /\ buttons.select_dir_button = NORMAL
    /\ output_directory' = d
    /\ labels' = [labels EXCEPT !.dir_label =
                     IF TruthyDir(d) THEN "Directory selected" ELSE "No directory selected"]
    /\ run' = Observed
    /\ UNCHANGED <<now, request_timestamps, file_path, entry, buttons, progress,
                   status_label, stack, disk, released>>

\* The user edits num_variations_entry (the entry is never disabled).
TypeEntry(text) ==
    /\ EventLoop
    /\ entry # text
    /\ entry' = text
    /\ run' = Observed
    /\ UNCHANGED <<now, request_timestamps, file_path, output_directory, ui, stack,
                   disk, released>>


\* ----------------------------------------------------- enforce_rate_limit
\* The timestamps left unpruned.
RecentNoPrune(timestamps, current_time) == timestamps

\* [t for t in self.request_timestamps if current_time - t < 60]
Recent(timestamps, current_time) ==
    SelectSeq(timestamps, LAMBDA t : current_time - t < Window)

\* A limit of one request per window.
LimitReachedAfterOne(timestamps) == Len(timestamps) >= 1

\* The test with > in place of >=.
LimitReachedOffByOne(timestamps) == Len(timestamps) > num_requests

\* len(self.request_timestamps) >= num_requests
LimitReached(timestamps) == Len(timestamps) >= num_requests

\* 60 - (current_time - self.request_timestamps[0])
SleepTime(timestamps, current_time) == Window - (current_time - timestamps[1])

\* self.request_timestamps[1:]
AfterWait(timestamps) == Tail(timestamps)

\* The instants of the last num_requests + 1 returns of enforce_rate_limit.
Released(instants, t) ==
    LET all == Append(instants, t)
    IN  IF Len(all) > num_requests + 1 THEN Tail(all) ELSE all

\* ---------------------------------------------------- generate_variations
CountZeroMsg == "Please enter a valid number greater than 0."
CountValueMsg == "Please enter a valid number for variations."
SourceMsg == "Please select an image file."
DirectoryMsg == "Please select an output directory."

\* The validation with the source checked before the count.
ValidateSourceFirst(text, f, d) ==
    IF ~Truthy(f) THEN SourceMsg
    ELSE IF int(text).raised THEN CountValueMsg
    ELSE IF int(text).value <= 0 THEN CountZeroMsg
    ELSE IF ~TruthyDir(d) THEN DirectoryMsg
    ELSE "ok"

\* The validation of generate_variations: the message of the error dialog
\* it shows, or "ok".
Validate(text, f, d) ==
    IF int(text).raised THEN CountValueMsg
    ELSE IF int(text).value <= 0 THEN CountZeroMsg
    ELSE IF ~Truthy(f) THEN SourceMsg
    ELSE IF ~TruthyDir(d) THEN DirectoryMsg
    ELSE "ok"

\* Processing with start_button left enabled.
ProcessingButtonsStartEnabled == [AllButtons(DISABLED) EXCEPT !.start_button = NORMAL]

\* The buttons while a run is processing.
ProcessingButtons == AllButtons(DISABLED)

\* The buttons disabled before the validation instead of after it.
RejectedButtonsDisabled == AllButtons(DISABLED)

\* The buttons after a rejected validation (the handler returns before it
\* touches them).
RejectedButtons == buttons

\* A full batch whatever remains.
NValueAlwaysCap(repetitions, images_created) == BatchCap

\* min(5, repetitions - images_created)
NValue(repetitions, images_created) == Min(BatchCap, repetitions - images_created)

\* basename of a path
Basename(f) == [name |-> f.name, prefix |-> f.prefix]

\* (images_created / repetitions) * 100, rounded down
Percent(images_created, repetitions) == (images_created * 100) \div repetitions

\* The click on start_button: the validation and, when it passes, the
\* handler up to its first root.update().
ClickGenerate ==
    /\ EventLoop
    /\ buttons.start_button = NORMAL
    /\ now < MaxTime
    /\ LET v == Validate(entry, file_path, output_directory)
       IN  IF v # "ok"
             THEN /\ run' = [NoRun EXCEPT !.outcome = "InvalidInput", !.dialog = v]
                  /\ buttons' = RejectedButtons
                  /\ UNCHANGED <<progress, status_label, stack>>
             ELSE /\ Len(stack) < MaxDepth
                  /\ run' = [NoRun EXCEPT !.outcome = "Processing",
                                          !.repetitions = int(entry).value]
                  /\ buttons' = ProcessingButtons
                  /\ status_label' = Status("Processing...", "blue")
                  /\ progress' = 0
                  /\ stack' = Push([Frame("generate_variations", "226") EXCEPT
                                       !.repetitions = int(entry).value])
    /\ UNCHANGED <<now, request_timestamps, file_path, output_directory, entry,
                   labels, disk, released>>

\* root.update() at line 226 returns; image_name and images_created are set.
StartLoop ==
    /\ At("generate_variations", "226")
    /\ stack' = SetTop([Top EXCEPT !.pc = "233", !.images_created = 0,
                                   !.image_name = Basename(file_path)])
    /\ UNCHANGED <<now, request_timestamps, file_path, output_directory, entry, ui,
                   run, disk, released>>

\* A reset_ui that also starts a fresh window.
TimestampsAfterResetCleared == <<>>

\* self.request_timestamps after reset_ui, which does not assign it.
TimestampsAfterReset == request_timestamps

\* reset_ui
ResetUi ==
    /\ file_path' = NoneFile
    /\ output_directory' = "None"
    /\ labels' = [file_label |-> "No file selected", dir_label |-> "No directory selected"]
    /\ entry' = ""
    /\ progress' = 0
    /\ status_label' = Status("Ready", "blue")
    /\ buttons' = AllButtons(NORMAL)
    /\ request_timestamps' = TimestampsAfterReset

\* `while images_created < repetitions` is false: the success dialog,
\* reset_ui and the finally block.
Complete ==
    /\ At("generate_variations", "233")
    /\ ~(Top.images_created < Top.repetitions)
    /\ ResetUi
    /\ run' = [run EXCEPT !.outcome = "Completed",
                          !.dialog = "Variations generated successfully!"]
    /\ stack' = Pop
    /\ UNCHANGED <<now, disk, released>>

\* `while images_created < repetitions` is true: enforce_rate_limit up to its
\* root.update(), or to its return when the limit is not reached.
Acquire ==
    /\ At("generate_variations", "233")
    /\ Top.images_created < Top.repetitions
    /\ LET kept == Recent(request_timestamps, now)
       IN  IF LimitReached(kept)
             THEN /\ request_timestamps' = kept
                  /\ status_label' =
                         [Status("Rate limit reached. Waiting", "orange")
                              EXCEPT !.k = SleepTime(kept, now)]
                  /\ stack' = SetTop([Top EXCEPT !.pc = "173", !.current_time = now,
                                         !.sleep_time = SleepTime(kept, now)])
                  /\ UNCHANGED released
             ELSE /\ request_timestamps' = Append(kept, now)
                  /\ stack' = SetTop([Top EXCEPT !.pc = "237", !.current_time = now])
                  /\ released' = Released(released, now)
                  /\ UNCHANGED status_label
    /\ run' = [run EXCEPT !.acquires = @ + 1]
    /\ UNCHANGED <<now, file_path, output_directory, entry, buttons, progress,
                   labels, disk>>

\* The timestamp enforce_rate_limit appends after it has waited.
RecordedAfterWait(frame) == frame.current_time

\* root.update() at line 173 returns, time.sleep(sleep_time) runs, the oldest
\* timestamp is dropped and the call's timestamp appended.
Wait ==
    /\ At("generate_variations", "173")
    /\ now' = now + Top.sleep_time
    /\ request_timestamps' = Append(AfterWait(request_timestamps), RecordedAfterWait(Top))
    /\ released' = Released(released, now')
    /\ stack' = SetTop([Top EXCEPT !.pc = "237"])
    /\ UNCHANGED <<file_path, output_directory, entry, ui, run, disk>>

\* An exception that is swallowed: the for loop goes on.
RaiseSwallowed(frame, cause) == [frame EXCEPT !.pc = "258"]

\* An exception that sends control back to the while loop (a retry).
RaiseRetries(frame, cause) == [frame EXCEPT !.pc = "233"]

\* An exception inside the try block: control goes to the except clause.
Raise(frame, cause) == [frame EXCEPT !.pc = "265"]

\* n_value, open(self.file_path) and the provider request, which returns
\* n_value results or raises.
Dispatch(ok) ==
    /\ At("generate_variations", "237")
    /\ LET n == NValue(Top.repetitions, Top.images_created)
       IN  IF ~file_path.exists
             THEN \* open raises FileNotFoundError before any request is made
                  /\ ok
                  /\ stack' = SetTop(Raise([Top EXCEPT !.n_value = n], "open"))
                  /\ run' = [run EXCEPT !.cause = "open"]
             ELSE IF ok
               THEN /\ stack' = SetTop([Top EXCEPT !.pc = "248", !.n_value = n, !.i = 0])
                    /\ run' = [run EXCEPT !.calls = Append(@, n)]
               ELSE /\ stack' = SetTop(Raise([Top EXCEPT !.n_value = n], "provider"))
                    /\ run' = [run EXCEPT !.calls = Append(@, n), !.cause = "provider"]
    /\ UNCHANGED <<now, request_timestamps, file_path, output_directory, entry, ui,
                   disk, released>>

\* A counter that counts each image twice.
IncrementedTwice(images_created) == images_created + 2

\* images_created += 1
Incremented(images_created) == images_created + 1

\* One pass of `for i in range(n_value)` up to its root.update(): the fetch
\* of result i and the write of its file.  result is what the environment
\* lets happen: "ok", or the call that fails.
SaveImage(result) ==
    /\ At("generate_variations", "248")
    /\ LET failure == IF result = "fetch" THEN "fetch"
                      ELSE IF ~DirExists(output_directory) THEN "write"
                      ELSE IF result = "write" THEN "write"
                      ELSE "none"
           index == Top.images_created + 1
       IN  IF failure # "none"
             THEN /\ stack' = SetTop(Raise(Top, failure))
                  /\ run' = [run EXCEPT !.cause = failure]
                  /\ UNCHANGED <<progress, status_label, disk>>
             ELSE /\ disk' = disk \cup {index}
                  /\ run' = [run EXCEPT !.written = Append(@, index)]
                  /\ progress' = Percent(Incremented(Top.images_created), Top.repetitions)
                  /\ status_label' = [Status("Generated", "blue") EXCEPT
                                         !.k = Incremented(Top.images_created),
                                         !.n = Top.repetitions]
                  /\ stack' = SetTop([Top EXCEPT !.pc = "258",
                                         !.images_created = Incremented(@)])
    /\ UNCHANGED <<now, request_timestamps, file_path, output_directory, entry,
                   buttons, labels, released>>

\* A loop that calls enforce_rate_limit once, before the while loop.
AfterBatchSkipsLimiter == "237"

\* Where control goes when the for loop ends: the test of the while loop,
\* whose body starts with enforce_rate_limit.
AfterBatch == "233"

\* root.update() at line 258 returns: the next pass of the for loop, or the
\* next test of the while loop.
NextImage ==
    /\ At("generate_variations", "258")
    /\ stack' = SetTop([Top EXCEPT !.i = @ + 1,
                           !.pc = IF Top.i + 1 < Top.n_value THEN "248" ELSE AfterBatch])
    /\ UNCHANGED <<now, request_timestamps, file_path, output_directory, entry, ui,
                   run, disk, released>>

\* A finally block that re-enables start_button only.
FinallyButtonsStartOnly == [buttons EXCEPT !.start_button = NORMAL]

\* The buttons after the finally block.
FinallyButtons == AllButtons(NORMAL)

\* The except clause and the finally block.
Except ==
    /\ At("generate_variations", "265")
    /\ status_label' = [Status("Error", "red") EXCEPT !.cause = run.cause]
    /\ run' = [run EXCEPT !.outcome = "Failed", !.dialog = "An error occurred while processing"]
    /\ buttons' = FinallyButtons
    /\ progress' = 0
    /\ stack' = Pop
    /\ UNCHANGED <<now, request_timestamps, file_path, output_directory, entry,
                   labels, disk, released>>

\* ------------------------------------------------------------ environment
\* Time passes while the program is blocked outside its own code.
Tick(d) ==
    /\ now < MaxTime
    /\ IF stack = <<>> THEN TRUE ELSE At("generate_variations", "237")
    /\ now' = now + d
    /\ UNCHANGED <<request_timestamps, file_path, output_directory, entry, ui,
                   stack, run, disk, released>>

Next ==
    \/ \E p \in SourceFiles : ClickSelectFile(p)
    \/ CompressOpen
    \/ CompressLoop
    \/ \E d \in Dirs : ClickSelectDirectory(d)
    \/ \E text \in EntryTexts : TypeEntry(text)
    \/ ClickGenerate
    \/ StartLoop
    \/ Acquire
    \/ Wait
    \/ \E ok \in BOOLEAN : Dispatch(ok)
    \/ \E result \in {"ok", "fetch", "write"} : SaveImage(result)
    \/ NextImage
    \/ Complete
    \/ Except

\* The whole application; the clock moves only in time.sleep.
Spec == Init /\ [][Next]_vars

\* The rate limiter under a moving clock: the user works with one source
\* file that needs no compression and one existing output directory.
LimiterFiles == {File("small.png", 3, 3, 1, TRUE)}
LimiterDirs == {"out"}
LimiterTexts == {"1", "12"}

NextLimiter ==
    \/ \E p \in LimiterFiles : ClickSelectFile(p)
    \/ \E d \in LimiterDirs : ClickSelectDirectory(d)
    \/ \E text \in LimiterTexts : TypeEntry(text)
    \/ ClickGenerate
    \/ StartLoop
    \/ Acquire
    \/ Wait
    \/ \E ok \in BOOLEAN : Dispatch(ok)
    \/ \E result \in {"ok", "fetch", "write"} : SaveImage(result)
    \/ NextImage
    \/ Complete
    \/ Except
    \/ \E d \in TickSteps : Tick(d)

SpecLimiter == Init /\ [][NextLimiter]_vars


\* Batching over several requested counts, with an unmoving clock.
BatchTexts == {"1", "5", "6", "10", "12"}

NextBatch ==
    \/ \E p \in LimiterFiles : ClickSelectFile(p)
    \/ \E d \in LimiterDirs : ClickSelectDirectory(d)
    \/ \E text \in BatchTexts : TypeEntry(text)
    \/ ClickGenerate
    \/ StartLoop
    \/ Acquire
    \/ Wait
    \/ \E ok \in BOOLEAN : Dispatch(ok)
    \/ \E result \in {"ok", "fetch", "write"} : SaveImage(result)
    \/ NextImage
    \/ Complete
    \/ Except

SpecBatch == Init /\ [][NextBatch]_vars

\* The batches again, with every call the run blocks in coming back: each
\* root.update() returns, time.sleep ends, and the provider request, the
\* fetch and the write return or raise.
RunFairness ==
    /\ WF_vars(StartLoop)
    /\ WF_vars(Acquire)
    /\ WF_vars(Wait)
    /\ WF_vars(\E ok \in BOOLEAN : Dispatch(ok))
    /\ WF_vars(\E result \in {"ok", "fetch", "write"} : SaveImage(result))
    /\ WF_vars(NextImage)
    /\ WF_vars(Complete)
    /\ WF_vars(Except)

SpecRun == Init /\ [][NextBatch]_vars /\ RunFairness

\* select_file and compress_image alone.  A handler that has started runs on
\* until it returns, raises or reaches root.update().
CompressFiles ==
    SourceFiles \cup { File("wide.png", 30, 12, 2, TRUE),
                       File("square.png", 130, 11, 11, TRUE) }

NextCompress ==
    \/ \E p \in CompressFiles : ClickSelectFile(p)
    \/ CompressOpen
    \/ CompressLoop

SpecCompress ==
    Init /\ [][NextCompress]_vars /\ WF_vars(CompressOpen) /\ WF_vars(CompressLoop)


\* ----------------------------------------------------------------- claims
Generating(f) == f.fn = "generate_variations"
RunsInProgress == Cardinality({k \in DOMAIN stack : Generating(stack[k])})
InWindow(timestamps, t) == {k \in DOMAIN timestamps : t - timestamps[k] < Window}

\* C1: at every point in time at most num_requests of the timestamps
\* recorded in request_timestamps lie within the trailing 60-second window.
C1_RecordedWithinQuota ==
    /\ Cardinality(InWindow(request_timestamps, now)) <= num_requests
    /\ Len(request_timestamps) <= num_requests

\* C1 witness: an acquire has waited and the window holds a full quota of
\* recorded timestamps, not all taken at the same instant.
C1_Witness ==
    /\ At("generate_variations", "237")
    /\ Top.sleep_time > 0
    /\ Cardinality(InWindow(request_timestamps, now)) = num_requests
    /\ request_timestamps[1] # request_timestamps[num_requests]

\* C2: no 60-second interval holds more than 5 of the instants at which
\* enforce_rate_limit returned (the instants of the provider requests).
C2_RequestsWithinQuota ==
    \A a, b \in DOMAIN released :
        b - a >= num_requests => released[b] - released[a] >= Window

\* C3: a run that completes has issued ceil(R/5) provider calls, all of 5
\* but the last, which has R mod 5 (5 when R is a multiple of 5), and has
\* written the files 1..R, each once, in that order.
C3_Batches ==
    run.outcome = "Completed" =>
        LET R == run.repetitions
            calls == run.calls
        IN  /\ Len(calls) = (R + BatchCap - 1) \div BatchCap
            /\ \A k \in 1 .. Len(calls) - 1 : calls[k] = BatchCap
            /\ calls[Len(calls)] = IF R % BatchCap = 0 THEN BatchCap ELSE R % BatchCap
            /\ run.written = [k \in 1 .. R |-> k]

\* C3 witness: a run of 12 images has completed.
C3_Witness == run.outcome = "Completed" /\ run.repetitions = 12

\* The step in which an external call of the processing loop fails.
FailureStep == run.cause = "" /\ run'.cause # ""
\* The step that follows a failure.
AfterFailure == At("generate_variations", "265")

\* C4: a failure in the processing loop goes straight to the except clause;
\* the step after it is the end of the run: no acquire, provider call, fetch
\* or write is made, the files written stay on disk, the run is Failed and the
\* status shows the cause in red.
C4_FailureAborts ==
    [][ /\ FailureStep =>
            /\ stack'[Len(stack')].pc = "265"
            /\ Len(stack') = Len(stack)
            /\ disk' = disk
            /\ run'.written = run.written
            /\ run'.acquires = run.acquires
        /\ AfterFailure =>
            /\ run' = [run EXCEPT !.outcome = "Failed", !.dialog = run'.dialog]
            /\ run.cause # ""
            /\ status_label'.fg = "red" /\ status_label'.cause = run.cause
            /\ disk' = disk
            /\ \A k \in DOMAIN run.written : run.written[k] \in disk'
            /\ request_timestamps' = request_timestamps
            /\ stack' = Pop
      ]_vars

\* C4 witness: a run has failed after it had written files.
C4_Witness ==
    /\ run.outcome = "Failed"
    /\ run.cause = "provider"
    /\ Len(run.written) = BatchCap
    /\ \A k \in 1 .. BatchCap : k \in disk

\* The step in which the validation of generate_variations rejects.
RejectStep == run' # run /\ run'.outcome = "InvalidInput"
\* The step in which generate_variations is entered.
EnterStep ==
    /\ run' # run
    /\ \/ run'.outcome = "InvalidInput"
       \/ /\ run'.outcome = "Processing"
          /\ run'.acquires = 0 /\ run'.calls = <<>> /\ run'.written = <<>>
          /\ run'.cause = ""

\* C5: a rejected validation leaves the limiter's timestamps, the disk, the
\* buttons and the progress value as they were and makes no provider call.
C5_RejectDoesNothing ==
    [][ RejectStep =>
            /\ request_timestamps' = request_timestamps
            /\ disk' = disk
            /\ buttons' = buttons
            /\ progress' = progress
            /\ stack' = stack
            /\ run'.calls = <<>> /\ run'.acquires = 0 /\ run'.written = <<>>
      ]_vars

\* C5 witness: a validation has rejected while the limiter held timestamps.
C5_Witness ==
    /\ run.outcome = "InvalidInput"
    /\ run.dialog = DirectoryMsg
    /\ request_timestamps # <<>>

CountValid(text) == ~int(text).raised /\ int(text).value > 0
CountMsgs == {CountZeroMsg, CountValueMsg}

\* C6: the validation reports the first failing check in the order count,
\* source, directory: a count error whatever the other two are, a source
\* error only with a valid count, a directory error only with a valid count
\* and a source.
C6_FirstFailingCheck ==
    [][ EnterStep =>
            /\ ~CountValid(entry) => run'.dialog \in CountMsgs
            /\ CountValid(entry) /\ ~Truthy(file_path) => run'.dialog = SourceMsg
            /\ CountValid(entry) /\ Truthy(file_path) /\ ~TruthyDir(output_directory)
                   => run'.dialog = DirectoryMsg
            /\ CountValid(entry) /\ Truthy(file_path) /\ TruthyDir(output_directory)
                   => run'.outcome = "Processing"
      ]_vars

\* C6 witness: count, source and directory are all invalid and the count
\* error is the one reported.
C6_Witness ==
    /\ run.outcome = "InvalidInput"
    /\ run.dialog \in CountMsgs
    /\ ~Truthy(file_path)
    /\ ~TruthyDir(output_directory)

\* C7: while the source path is non-empty and references no file, or the
\* output directory is non-empty and no directory, no run is in Processing,
\* no acquire has been made and no provider call issued.
C7_MissingPathsRejected ==
    (Truthy(file_path) /\ ~file_path.exists)
        \/ (TruthyDir(output_directory) /\ ~DirExists(output_directory))
    => run.outcome # "Processing" /\ run.acquires = 0 /\ run.calls = <<>>

\* C8: at most one generate_variations run is in progress at any time.
C8_OneRunAtATime == RunsInProgress <= 1

\* C8 witness: a run is inside the rate limiter's root.update(), started
\* from inside the root.update() of select_file.
C8_Witness ==
    /\ At("generate_variations", "173")
    /\ Len(stack) = 2
    /\ stack[1].fn = "select_file"

InResizeLoop == At("select_file", "148")

\* C9: every iteration of the resize loop shrinks both dimensions, which
\* stay at least one pixel, and the loop is left after finitely many
\* iterations.
C9_CompressTerminates ==
    /\ [][ InResizeLoop /\ InResizeLoop' /\ Len(stack') = Len(stack) =>
               /\ Top'.img.w < Top.img.w /\ Top'.img.h < Top.img.h
               /\ Top'.img.w >= 1 /\ Top'.img.h >= 1 ]_vars
    /\ [](InResizeLoop => <>(~InResizeLoop))

\* C9 witness: the loop has shrunk an image whose size stays over the
\* ceiling whatever its dimensions.
C9_Witness ==
    /\ InResizeLoop
    /\ Top.img.name = "meta.png"
    /\ Top.img.w < 3
    /\ StillTooLarge(Top.file_size)

\* C10: a path returned by compress_image references a file at or under the
\* ceiling.
C10_ReturnedUnderCeiling ==
    file_path.prefix > 0 => file_path.size <= max_size_mb

\* C10 witness: compress_image has returned an image it had to resize.
C10_Witness ==
    /\ file_path.prefix > 0
    /\ file_path.name = "huge.png"
    /\ file_path.w < 4
    /\ file_path.size = max_size_mb


\* C11: at the end of a failed run the report shows error severity and the
\* number of images the run created: the status carries the count and the
\* progress value is that of the images written.
C11_FailedRunReportsCount ==
    run.outcome = "Failed" =>
        /\ status_label.fg = "red"
        /\ status_label.k = Len(run.written)
        /\ progress = Percent(Len(run.written), run.repetitions)

\* The run in progress is the first that ever acquired: the limiter's
\* history was empty when it started.
FirstRun == Len(released) <= run.acquires
InRun == stack # <<>> /\ Generating(Top)
CloseDispatches ==
    released # <<>> /\ released[Len(released)] - released[1] < Window

\* C12 as claimed: in a run of 12 started with an empty history, with its
\* dispatches less than 60 seconds apart, the 2nd and the 3rd dispatch are
\* preceded by a wait.
C12_WaitBeforeSecondAndThird ==
    /\ At("generate_variations", "237")
    /\ run.repetitions = 12
    /\ FirstRun
    /\ run.acquires >= 2
    /\ CloseDispatches
    => Top.sleep_time > 0

\* C12 as amended: in a run of 12 started with an empty history none of the
\* three dispatches is preceded by a wait; the limiter waits only once 5
\* timestamps of the last 60 seconds are recorded.
C12_NoWaitInFirstRun ==
    /\ InRun /\ run.repetitions = 12 /\ FirstRun
           => Top.pc # "173" /\ Top.sleep_time = 0
    /\ At("generate_variations", "173") => Len(request_timestamps) >= num_requests

\* C12 witness: the third dispatch of such a run is about to be made, the
\* three acquires less than 60 seconds apart and none of them waited.
C12_Witness ==
    /\ At("generate_variations", "237")
    /\ run.repetitions = 12
    /\ FirstRun
    /\ run.acquires = 3
    /\ CloseDispatches
    /\ released[3] > released[1]
    /\ Top.sleep_time = 0

\* C13: the timestamp an acquire has appended is the instant at which the
\* acquire returned.
C13_RecordsReturnInstant ==
    At("generate_variations", "237") =>
        request_timestamps[Len(request_timestamps)] = released[Len(released)]

\* The step in which enforce_rate_limit comes back from its wait.
WaitStep == At("generate_variations", "173") /\ stack' # stack

\* C14: whenever enforce_rate_limit decides to wait, the computed wait is
\* never negative and never more than the 60-second window; the wait drops
\* exactly the oldest timestamp (the rest keep their order, then the call's
\* timestamp is appended), and the sequence never holds more than the quota.
C14_WaitBoundedAndDropsOldest ==
    /\ [](At("generate_variations", "173")
             => Top.sleep_time >= 0 /\ Top.sleep_time <= Window)
    /\ [](Len(request_timestamps) <= num_requests)
    /\ [][WaitStep =>
             /\ Len(request_timestamps') = Len(request_timestamps)
             /\ SubSeq(request_timestamps', 1, Len(request_timestamps) - 1)
                    = Tail(request_timestamps)]_vars

\* C14 witness: a call that waited 40 seconds has returned, and the sequence
\* holds exactly the quota.
C14_Witness ==
    /\ At("generate_variations", "237")
    /\ Top.sleep_time = 40
    /\ now = Top.current_time + 40
    /\ Len(request_timestamps) = num_requests

\* The step in which the provider request of line 239 is made.
DispatchStep == Len(run'.calls) = Len(run.calls) + 1

\* C15: every provider dispatch is preceded by exactly one acquire made since
\* the previous dispatch (never a dispatch without an acquire, never two
\* acquires for one dispatch), and the timestamp of the acquire stays
\* recorded when the dispatch fails and while the failure is handled.
C15_OneAcquirePerDispatch ==
    /\ [](run.outcome # "none" =>
             /\ Len(run.calls) <= run.acquires
             /\ run.acquires <= Len(run.calls) + 1)
    /\ [][DispatchStep => run.acquires = Len(run.calls) + 1]_vars
    /\ [][DispatchStep /\ FailureStep =>
             /\ request_timestamps' = request_timestamps
             /\ request_timestamps # <<>>
             /\ request_timestamps[Len(request_timestamps)] = Top.current_time]_vars
    /\ [][AfterFailure => request_timestamps' = request_timestamps]_vars

\* C15 witness: the second dispatch of a run failed at the provider, after
\* two acquires, and both timestamps are still recorded when the run is over.
C15_Witness ==
    /\ run.outcome = "Failed"
    /\ run.cause = "provider"
    /\ Len(run.calls) = 2
    /\ run.acquires = 2
    /\ Len(request_timestamps) >= 2

\* The step in which one more file has been written.
WriteStep == Len(run'.written) = Len(run.written) + 1

\* C16: progress is reported per image: each file written raises
\* images_created by exactly 1 and is followed at once by a progress update
\* carrying the new count, the reported count only ever changes by such a
\* step (so the counts are 1, 2, ... in increasing order), and
\* 0 <= images_created <= repetitions in every state of the loop.
C16_ProgressPerImage ==
    /\ [](\A d \in DOMAIN stack :
              Generating(stack[d]) =>
                  /\ stack[d].images_created >= 0
                  /\ stack[d].images_created <= stack[d].repetitions)
    /\ [](InRun /\ Top.pc \in {"233", "173", "237", "248", "258"} =>
              /\ Top.images_created = Len(run.written)
              /\ \A j \in DOMAIN run.written : run.written[j] = j)
    /\ [][WriteStep =>
              /\ Top'.images_created = Top.images_created + 1
              /\ Top'.pc = "258"
              /\ status_label'.text = "Generated"
              /\ status_label'.k = Top'.images_created
              /\ status_label'.n = Top.repetitions
              /\ progress' = Percent(Top'.images_created, Top.repetitions)]_vars
    /\ [][status_label'.text = "Generated" /\ status_label' # status_label =>
              WriteStep /\ status_label'.k = Len(run.written) + 1]_vars

\* C16 witness: in the middle of the second batch of a run of 12, the report
\* says 7 of 12.
C16_Witness ==
    /\ At("generate_variations", "258")
    /\ Top.repetitions = 12
    /\ Top.images_created = 7
    /\ Top.i = 1
    /\ status_label.k = 7
    /\ progress = 58

Terminal == {"Completed", "Failed"}

\* C17: a run moves from validation to Processing and from Processing to
\* exactly one of Completed and Failed; it is Completed only when
\* images_created = repetitions and nothing has failed, Failed only with a
\* cause, an error inside the loop leads nowhere but to Failed, and, every
\* external call returning or raising, a run in Processing ends.
C17_RunLifecycle ==
    /\ [][run'.outcome # run.outcome =>
              /\ run.outcome = "Processing" => run'.outcome \in Terminal
              /\ run'.outcome \in Terminal => run.outcome = "Processing"]_vars
    /\ [][run'.outcome = "Completed" /\ run.outcome = "Processing" =>
              /\ Top.images_created = Top.repetitions
              /\ Len(run'.written) = run'.repetitions
              /\ run'.cause = ""
              /\ status_label'.fg # "red"]_vars
    /\ [][run'.outcome = "Failed" /\ run.outcome = "Processing" =>
              /\ run'.cause # ""
              /\ status_label'.fg = "red"]_vars
    /\ [](run.outcome = "Processing" /\ run.cause # "" => AfterFailure)
    /\ [](run.outcome = "Processing" <=> RunsInProgress = 1)
    /\ (run.outcome = "Processing" ~> run.outcome \in Terminal)

\* C17 witness: a run of 12 has completed after three dispatches.
C17_Witness ==
    /\ run.outcome = "Completed"
    /\ run.repetitions = 12
    /\ Len(run.calls) = 3
    /\ Len(run.written) = 12
    /\ stack = <<>>

\* C18: whenever generate_variations makes a provider request, the file it
\* uploads is at or under the 4 MB ceiling, whatever select_file did before.
C18_UploadUnderCeiling ==
    [][DispatchStep => file_path.size <= max_size_mb]_vars

\* C19: the three buttons are disabled in every state in which a job is in
\* Processing, and all three are enabled whenever no job is running: after a
\* completed run, after a run that failed in the loop and after a rejected
\* click alike.
C19_ButtonsFollowRun ==
    /\ RunsInProgress >= 1 => buttons = AllButtons(DISABLED)
    /\ RunsInProgress = 0 => buttons = AllButtons(NORMAL)
    /\ run.outcome \in {"Completed", "Failed", "InvalidInput"}
           => buttons = AllButtons(NORMAL)

\* C19 witness: a run has just failed in the loop after writing an image, and
\* the buttons are back.
C19_Witness ==
    /\ run.outcome = "Failed"
    /\ run.written # <<>>
    /\ RunsInProgress = 0
    /\ buttons = AllButtons(NORMAL)

\* A step of enforce_rate_limit: from its call at the top of the while loop,
\* or from its wait, to its wait or its return.
LimiterStep ==
    /\ At("generate_variations", "233") \/ At("generate_variations", "173")
    /\ stack' # <<>>
    /\ Top'.pc \in {"173", "237"}

\* C20: request_timestamps is changed by enforce_rate_limit only; reset_ui,
\* select_file, select_directory, a rejected click, the completion and the
\* failure of a job leave it as it is, so the quota carries over from one job
\* to the next.
C20_OnlyLimiterChangesTimestamps ==
    [][request_timestamps' # request_timestamps => LimiterStep]_vars

\* C20 witness: the very first acquire of a job has to wait, because the five
\* timestamps of earlier jobs are still recorded.
C20_Witness ==
    /\ At("generate_variations", "173")
    /\ run.acquires = 1
    /\ Len(request_timestamps) = num_requests

====
